---- MODULE Spec2Model ----
(***************************************************************************)
(* A model of src/chat_client.py: the ChatGPT client's chat() operation    *)
(* (landing-page GET, token extraction, payload construction, POST,        *)
(* response interpretation), its token extractor and its conversation      *)
(* formatter.                                                              *)
(*                                                                         *)
(* Text that the code only passes around (queries, reply texts, header     *)
(* values) is a TLA+ string.  Text that the code searches with a regular   *)
(* expression (the landing page) is a sequence of lexical units: the two   *)
(* attribute names followed by "=", the double quote, an ordinary          *)
(* character and the newline.                                              *)
(***************************************************************************)
EXTENDS Integers, Sequences, FiniteSets, TLC

VARIABLES
    callNo,        \* number of chat() calls started on the client
    call,          \* the chat() invocation in progress (or the last one finished)
    twin,          \* the same invocation replayed with another model argument
    prevTokens,    \* tokens extracted by the latest earlier call (<<>> if none)
    html,          \* token extractor: the document text
    extracted,     \* token extractor: the result of _get_auth_tokens' parse
    messages,      \* formatter: the input message list
    conversation   \* formatter: the returned list of lines

vars == <<callNo, call, twin, prevTokens, html, extracted, messages, conversation>>

(***************************************************************************)
(* Bounds of the model.                                                    *)
(***************************************************************************)
MaxCalls == 2
MaxHtmlLen == 7
MaxMessages == 3

(***************************************************************************)
(* Lexical units of the landing page.                                      *)
(***************************************************************************)
NONCE_ATTR == "data-nonce="
POST_ID_ATTR == "data-post-id="
QUOTE == "\""
CHAR == "x"
NEWLINE == "\n"

Alphabet == {NONCE_ATTR, POST_ID_ATTR, QUOTE, CHAR, NEWLINE}

Min(S) == CHOOSE x \in S : \A y \in S : x <= y

(***************************************************************************)
(* re.search(attr + '"(.+?)"', text).  A match starting at i needs the     *)
(* attribute name at i, a quote at i+1, then at least one character other  *)
(* than a newline ('.' without DOTALL; the quote itself qualifies), then a *)
(* quote; the lazy quantifier takes the nearest such closing quote.        *)
(***************************************************************************)
GroupEnds(text, i) ==
    {j \in (i + 3)..Len(text) :
        /\ text[j] = QUOTE
        /\ \A k \in (i + 2)..(j - 1) : text[k] # NEWLINE}

MatchStarts(text, attr) ==
    {i \in 1..Len(text) :
        /\ i + 3 <= Len(text)
        /\ text[i] = attr
        /\ text[i + 1] = QUOTE
        /\ GroupEnds(text, i) # {}}

\* the match object: matched = FALSE is Python's None; group1 is group(1)
re_search(attr, text) ==
    IF MatchStarts(text, attr) = {}
    THEN [matched |-> FALSE, group1 |-> <<>>]
    ELSE LET i == Min(MatchStarts(text, attr))
             j == Min(GroupEnds(text, i))
         IN  [matched |-> TRUE, group1 |-> SubSeq(text, i + 2, j - 1)]

(***************************************************************************)
(* Exceptions are identified by their class.  The client's own hierarchy:  *)
(***************************************************************************)
ErrorKinds == {"ChatGPTError", "ConnectionError", "AuthenticationError", "ParseError"}

\* issubclass(kind, base) for the classes that occur in the model
IsSubclass(kind, base) ==
    \/ kind = base
    \/ base = "ChatGPTError" /\ kind \in ErrorKinds
    \/ base = "Exception"

\* ParseTokens with line 128's "or" written "and": a page that lacks only one
\* attribute is let through
ParseTokensAnd(text) ==
    LET nonce_match == re_search(NONCE_ATTR, text)
        post_id_match == re_search(POST_ID_ATTR, text)
    IN  IF ~nonce_match.matched /\ ~post_id_match.matched
        THEN [raised |-> "ParseError", value |-> <<>>]
        ELSE [raised |-> "", value |-> <<nonce_match.group1, post_id_match.group1>>]

\* lines 125-131: the parse half of _get_auth_tokens
ParseTokens(text) ==
    LET nonce_match == re_search(NONCE_ATTR, text)
        post_id_match == re_search(POST_ID_ATTR, text)
    IN  IF ~nonce_match.matched \/ ~post_id_match.matched
        THEN [raised |-> "ParseError", value |-> <<>>]
        ELSE [raised |-> "", value |-> <<nonce_match.group1, post_id_match.group1>>]

(***************************************************************************)
(* _prepare_conversation (lines 133-147).  A Message is a record with the  *)
(* dataclass's two fields.  The loop appends one line per message.         *)
(***************************************************************************)
DIRECTIVE == "Human: strictly respond in the same language as my prompt, preferably English"

Message(role, content) == [role |-> role, content |-> content]

\* RoleLabel testing for the assistant instead of the user
RoleLabelAssistant(role) == IF role = "assistant" THEN "AI" ELSE "Human"

\* line 145
RoleLabel(role) == IF role = "user" THEN "Human" ELSE "AI"

\* line 146: f"{role}: {msg.content}"
FormatLine(msg) == RoleLabel(msg.role) \o ": " \o msg.content

RECURSIVE ConversationLoop(_, _, _)
ConversationLoop(acc, msgs, i) ==
    IF i > Len(msgs)
    THEN acc
    ELSE ConversationLoop(Append(acc, FormatLine(msgs[i])), msgs, i + 1)

\* the returned list, and the argument list as the call leaves it
_prepare_conversation(msgs) ==
    [ret |-> ConversationLoop(<<DIRECTIVE>>, msgs, 1), messages |-> msgs]

(***************************************************************************)
(* Input domains.                                                          *)
(***************************************************************************)
RECURSIVE SeqsUpTo(_, _)
SeqsUpTo(S, n) ==
    IF n = 0
    THEN {<<>>}
    ELSE LET shorter == SeqsUpTo(S, n - 1)
         IN  shorter \cup {Append(s, x) : s \in shorter, x \in S}

Roles == {"user", "assistant", "system"}
Contents == {"Hi", "Hola"}
MessageLists == SeqsUpTo({Message(r, c) : r \in Roles, c \in Contents}, MaxMessages)

NotRun == [raised |-> "not-run", value |-> <<>>]
NoLines == <<>>

(***************************************************************************)
(* The client object (lines 63-102).                                       *)
(***************************************************************************)
BASE_URL == "https://chatgpt.es"
\* urljoin(BASE_URL, '/wp-admin/admin-ajax.php')
API_ENDPOINT == "https://chatgpt.es/wp-admin/admin-ajax.php"
\* the default of __init__'s timeout parameter
timeout == 30

USER_AGENT ==
    "Mozilla/5.0 (Macintosh; Intel Mac OS X 10_15_7) AppleWebKit/537.36 (KHTML, like Gecko) Chrome/129.0.0.0 Safari/537.36"

initial_headers ==
    ("User-Agent" :> USER_AGENT)
    @@ ("Referer" :> "https://www.google.com/")
    @@ ("Accept" :> "text/html,application/xhtml+xml,application/xml;q=0.9,image/avif,image/webp,image/apng,*/*;q=0.8,application/signed-exchange;v=b3;q=0.7")

post_headers ==
    ("User-Agent" :> initial_headers["User-Agent"])
    @@ ("Referer" :> BASE_URL)
    @@ ("Origin" :> BASE_URL)
    @@ ("Accept" :> "*/*")
    @@ ("Content-Type" :> "application/x-www-form-urlencoded; charset=UTF-8")

Models == {"GPT4O", "GPT4O_MINI", "GPT4O_LATEST"}

\* ChatModelEnum.to_api_string (lines 17-24); chat() never calls it
to_api_string(model) ==
    CASE model = "GPT4O" -> "gpt-4o"
      [] model = "GPT4O_MINI" -> "gpt-4o-mini"
      [] model = "GPT4O_LATEST" -> "chatgpt-4o-latest"

(***************************************************************************)
(* The transport.  What session.get / session.post can do: fail with a     *)
(* transport error, time out, or deliver a response with a status and a    *)
(* body.  The body of a GET is a document (a sequence of lexical units),   *)
(* the body of a POST is a text.                                           *)
(***************************************************************************)
Statuses == {200, 404, 500}

Attr(name, value) == <<name, QUOTE>> \o value \o <<QUOTE>>

Pages ==
    { Attr(NONCE_ATTR, <<CHAR>>) \o Attr(POST_ID_ATTR, <<CHAR, CHAR>>),
      Attr(POST_ID_ATTR, <<CHAR>>) \o <<NEWLINE>> \o Attr(NONCE_ATTR, <<CHAR, CHAR>>),
      Attr(POST_ID_ATTR, <<CHAR>>),
      Attr(NONCE_ATTR, <<CHAR>>),
      <<CHAR, NEWLINE>>,
      Attr(POST_ID_ATTR, <<CHAR>>) \o Attr(NONCE_ATTR, <<>>),
      Attr(NONCE_ATTR, <<>>) \o Attr(POST_ID_ATTR, <<CHAR>>),
      Attr(NONCE_ATTR, <<CHAR, NEWLINE, CHAR>>) \o Attr(POST_ID_ATTR, <<CHAR>>) }

Bodies ==
    { "{\"data\": \"hello\"}",
      "{\"data\": \"Hi there!\"}",
      "{\"data\": \"\"}",
      "{\"data\": 42}",
      "{\"data\": null}",
      "{}",
      "\"not-an-object\"",
      "[\"hello\"]",
      "<html>Bad Gateway</html>" }

GetOutcomes ==
    {[kind |-> k, status |-> 0, text |-> <<>>] : k \in {"error", "timeout"}}
    \cup {[kind |-> "response", status |-> s, text |-> p] : s \in Statuses, p \in Pages}

PostOutcomes ==
    {[kind |-> k, status |-> 0, text |-> ""] : k \in {"error", "timeout"}}
    \cup {[kind |-> "response", status |-> s, text |-> b] : s \in Statuses, b \in Bodies}

NoGetResponse == [kind |-> "none", status |-> 0, text |-> <<>>]
NoPostResponse == [kind |-> "none", status |-> 0, text |-> ""]

\* os.urandom(5).hex(): ten hexadecimal digits
ClientIds == {"00a1b2c3d4", "ffe0d1c2b3"}
Queries == {"Hi", "Hola"}

\* what session.get / session.post raise instead of returning a response
session_request(resp) ==
    CASE resp.kind = "error" -> "requests.ConnectionError"
      [] resp.kind = "timeout" -> "requests.Timeout"
      [] OTHER -> ""

\* response.raise_for_status()
raise_for_status(resp) ==
    IF resp.status >= 400 /\ resp.status < 600 THEN "requests.HTTPError" ELSE ""

(***************************************************************************)
(* Python values that chat() can return or inspect, tagged by their type. *)
(***************************************************************************)
PyStr(s) == [type |-> "str", val |-> s]
PyInt(s) == [type |-> "int", val |-> s]
PyNone == [type |-> "NoneType", val |-> ""]
PyList == [type |-> "list", val |-> ""]
PyDict(items) == [type |-> "dict", val |-> "", items |-> items]

\* response.json() on the bodies of the model: ok = FALSE is JSONDecodeError
json_loads(text) ==
    CASE text = "{\"data\": \"hello\"}" -> [ok |-> TRUE, value |-> PyDict("data" :> PyStr("hello"))]
      [] text = "{\"data\": \"Hi there!\"}" -> [ok |-> TRUE, value |-> PyDict("data" :> PyStr("Hi there!"))]
      [] text = "{\"data\": \"\"}" -> [ok |-> TRUE, value |-> PyDict("data" :> PyStr(""))]
      [] text = "{\"data\": 42}" -> [ok |-> TRUE, value |-> PyDict("data" :> PyInt("42"))]
      [] text = "{\"data\": null}" -> [ok |-> TRUE, value |-> PyDict("data" :> PyNone)]
      [] text = "{}" -> [ok |-> TRUE, value |-> PyDict(<<>>)]
      [] text = "\"not-an-object\"" -> [ok |-> TRUE, value |-> PyStr("not-an-object")]
      [] text = "[\"hello\"]" -> [ok |-> TRUE, value |-> PyList]
      [] OTHER -> [ok |-> FALSE, value |-> PyNone]

\* dict.get(key): None when the key is absent
dict_get(d, key) == IF key \in DOMAIN d.items THEN d.items[key] ELSE PyNone

\* json.dumps of a list of strings that need no escaping
RECURSIVE JoinQuoted(_, _)
JoinQuoted(lines, i) ==
    IF i > Len(lines)
    THEN ""
    ELSE (IF i > 1 THEN ", " ELSE "") \o "\"" \o lines[i] \o "\"" \o JoinQuoted(lines, i + 1)

json_dumps(lines) == "[" \o JoinQuoted(lines, 1) \o "]"

(***************************************************************************)
(* _get_auth_tokens (lines 104-131).                                       *)
(***************************************************************************)
\* lines 122-123: except Exception -> raise ConnectionError
TokenFetchExcept(e) == "ConnectionError"

\* _get_auth_tokens without line 121's raise_for_status()
_get_auth_tokens_unchecked(resp) ==
    LET e == session_request(resp)
    IN  IF e # ""
        THEN [raised |-> TokenFetchExcept(e), value |-> <<>>]
        ELSE ParseTokens(resp.text)

_get_auth_tokens(resp) ==
    LET e == IF session_request(resp) # "" THEN session_request(resp)
             ELSE raise_for_status(resp)
    IN  IF e # ""
        THEN [raised |-> TokenFetchExcept(e), value |-> <<>>]
        ELSE ParseTokens(resp.text)

(***************************************************************************)
(* chat (lines 149-199).  An invocation is a record: where it stands, its  *)
(* arguments, its local token pair, the requests it has issued, the        *)
(* responses it has received and how it ended.                             *)
(***************************************************************************)
Running == [kind |-> "running", error |-> "", value |-> PyNone]
Raise(e) == [kind |-> "raise", error |-> e, value |-> PyNone]
Return(v) == [kind |-> "return", error |-> "", value |-> v]

NewCall(pc, query, model, requests) ==
    [pc |-> pc, query |-> query, model |-> model, tokens |-> <<>>,
     requests |-> requests, getResp |-> NoGetResponse,
     postResp |-> NoPostResponse, outcome |-> Running]

IdleCall == NewCall("idle", "", "GPT4O", <<>>)

\* lines 116-120
GetRequest ==
    [method |-> "GET", url |-> BASE_URL, headers |-> initial_headers,
     timeout |-> timeout]

\* ChatPayload with the two token fields filled from each other's variable
ChatPayloadSwapped(nonce, post_id, msgs, conv, client_id) ==
    [_wpnonce |-> post_id,
     post_id |-> nonce,
     url |-> BASE_URL,
     action |-> "wpaicg_chat_shortcode_message",
     message |-> msgs[Len(msgs)].content,
     bot_id |-> "0",
     chatbot_identity |-> "shortcode",
     wpaicg_chat_client_id |-> client_id,
     wpaicg_chat_history |-> json_dumps(conv)]

\* lines 168-178
ChatPayload(nonce, post_id, msgs, conv, client_id) ==
    [_wpnonce |-> nonce,
     post_id |-> post_id,
     url |-> BASE_URL,
     action |-> "wpaicg_chat_shortcode_message",
     message |-> msgs[Len(msgs)].content,
     bot_id |-> "0",
     chatbot_identity |-> "shortcode",
     wpaicg_chat_client_id |-> client_id,
     wpaicg_chat_history |-> json_dumps(conv)]

\* the POST with the selected model added to the form
ChatRequestWithModel(c, tokens, client_id) ==
    LET msgs == <<Message("user", c.query)>>
        conv == _prepare_conversation(msgs).ret
        p == ChatPayload(tokens[1], tokens[2], msgs, conv, client_id)
    IN  [method |-> "POST", url |-> API_ENDPOINT, headers |-> post_headers,
         data |-> [_wpnonce |-> p._wpnonce, post_id |-> p.post_id, url |-> p.url,
                   action |-> p.action, message |-> p.message, bot_id |-> p.bot_id,
                   chatbot_identity |-> p.chatbot_identity,
                   wpaicg_chat_client_id |-> p.wpaicg_chat_client_id,
                   wpaicg_chat_history |-> p.wpaicg_chat_history,
                   model |-> to_api_string(c.model)],
         timeout |-> timeout]

\* lines 165-186: the POST that chat() issues once it holds the tokens
ChatRequest(c, tokens, client_id) ==
    LET msgs == <<Message("user", c.query)>>
        conv == _prepare_conversation(msgs).ret
    IN  [method |-> "POST", url |-> API_ENDPOINT, headers |-> post_headers,
         data |-> ChatPayload(tokens[1], tokens[2], msgs, conv, client_id),
         timeout |-> timeout]

\* ChatExcept re-raising what it caught
ChatExceptReraise(e) == e

\* lines 198-199: except Exception -> raise ChatGPTError
ChatExcept(e) == "ChatGPTError"

\* lines 187-199
InterpretResponse(resp) ==
    LET transport == IF session_request(resp) # "" THEN session_request(resp)
                     ELSE raise_for_status(resp)
        parsed == json_loads(resp.text)
        message == dict_get(parsed.value, "data")
    IN  IF transport # "" THEN [raised |-> ChatExcept(transport), value |-> PyNone]
        ELSE IF ~parsed.ok THEN [raised |-> ChatExcept("json.JSONDecodeError"), value |-> PyNone]
        ELSE IF parsed.value.type # "dict" THEN [raised |-> ChatExcept("AssertionError"), value |-> PyNone]
        ELSE IF message.type # "str" THEN [raised |-> ChatExcept("ParseError"), value |-> PyNone]
        ELSE [raised |-> "", value |-> message]

\* line 163, then lines 165-186 when the tokens were obtained
OnGetResponse(c, resp, client_id) ==
    LET t == _get_auth_tokens(resp)
    IN  IF t.raised # ""
        THEN [c EXCEPT !.pc = "done", !.getResp = resp, !.outcome = Raise(t.raised)]
        ELSE [c EXCEPT !.pc = "post", !.getResp = resp, !.tokens = t.value,
                       !.requests = Append(@, ChatRequest(c, t.value, client_id))]

\* lines 187-199
OnPostResponse(c, resp) ==
    LET r == InterpretResponse(resp)
    IN  [c EXCEPT !.pc = "done", !.postResp = resp,
                  !.outcome = IF r.raised # "" THEN Raise(r.raised) ELSE Return(r.value)]

\* main (lines 201-208)
main(outcome) ==
    IF outcome.kind = "return" THEN "printed response"
    ELSE IF IsSubclass(outcome.error, "ChatGPTError") THEN "printed error"
    ELSE "crashed"

(***************************************************************************)
(* The client in use: a sequence of chat() calls on one ChatGPT object.    *)
(***************************************************************************)
Init ==
    /\ callNo = 0
    /\ call = IdleCall
    /\ twin = IdleCall
    /\ prevTokens = <<>>
    /\ html = <<>>
    /\ extracted = NotRun
    /\ messages = <<>>
    /\ conversation = NoLines

Chat(query, model, twinModel) ==
    /\ call.pc \in {"idle", "done"}
    /\ callNo < MaxCalls
    /\ callNo' = callNo + 1
    /\ call' = NewCall("get", query, model, <<GetRequest>>)
    /\ twin' = NewCall("get", query, twinModel, <<GetRequest>>)
    /\ prevTokens' = IF call.tokens # <<>> THEN call.tokens ELSE prevTokens
    /\ UNCHANGED <<html, extracted, messages, conversation>>

GetResponds ==
    /\ call.pc = "get"
    /\ \E resp \in GetOutcomes, client_id \in ClientIds :
          /\ call' = OnGetResponse(call, resp, client_id)
          /\ twin' = IF twin.pc = "get" THEN OnGetResponse(twin, resp, client_id) ELSE twin
    /\ UNCHANGED <<callNo, prevTokens, html, extracted, messages, conversation>>

PostResponds ==
    /\ call.pc = "post"
    /\ \E resp \in PostOutcomes :
          /\ call' = OnPostResponse(call, resp)
          /\ twin' = IF twin.pc = "post" THEN OnPostResponse(twin, resp) ELSE twin
    /\ UNCHANGED <<callNo, prevTokens, html, extracted, messages, conversation>>

Next ==
    \/ \E query \in Queries, model \in Models, twinModel \in Models :
          Chat(query, model, twinModel)
    \/ GetResponds
    \/ PostResponds

Spec == Init /\ [][Next]_vars

(***************************************************************************)
(* The token extractor alone, on every document up to MaxHtmlLen units.    *)
(***************************************************************************)
InitExtract ==
    /\ html \in SeqsUpTo(Alphabet, MaxHtmlLen)
    /\ extracted = NotRun
    /\ callNo = 0
    /\ call = IdleCall
    /\ twin = IdleCall
    /\ prevTokens = <<>>
    /\ messages = <<>>
    /\ conversation = NoLines

Extract ==
    /\ extracted = NotRun
    /\ extracted' = ParseTokens(html)
    /\ UNCHANGED <<callNo, call, twin, prevTokens, html, messages, conversation>>

NextExtract == Extract

SpecExtract == InitExtract /\ [][NextExtract]_vars

(***************************************************************************)
(* The conversation formatter alone, on every message list up to           *)
(* MaxMessages messages.                                                   *)
(***************************************************************************)
InitFormat ==
    /\ messages \in MessageLists
    /\ conversation = NoLines
    /\ html = <<>>
    /\ extracted = NotRun
    /\ callNo = 0
    /\ call = IdleCall
    /\ twin = IdleCall
    /\ prevTokens = <<>>

Format ==
    /\ conversation = NoLines
    /\ LET r == _prepare_conversation(messages)
       IN  /\ conversation' = r.ret
           /\ messages' = r.messages
    /\ UNCHANGED <<callNo, call, twin, prevTokens, html, extracted>>

NextFormat == Format

SpecFormat == InitFormat /\ [][NextFormat]_vars

(***************************************************************************)
(* Vocabulary of the properties.                                           *)
(***************************************************************************)
\* positions of a well-formed attribute attr="v" (v free of quotes, possibly empty)
AttrOccurrences(text, attr) ==
    {i \in 1..Len(text) :
        /\ i + 2 <= Len(text)
        /\ text[i] = attr
        /\ text[i + 1] = QUOTE
        /\ \E j \in (i + 2)..Len(text) : text[j] = QUOTE}

HasAttr(text, attr) == AttrOccurrences(text, attr) # {}

\* the quote-delimited content of the first occurrence
FirstAttrValue(text, attr) ==
    LET i == Min(AttrOccurrences(text, attr))
        j == Min({k \in (i + 2)..Len(text) : text[k] = QUOTE})
    IN  SubSeq(text, i + 2, j - 1)

HasBothAttrs(text) == HasAttr(text, NONCE_ATTR) /\ HasAttr(text, POST_ID_ATTR)

\* the document is plain text interleaved with complete attributes whose
\* values hold no quote and no attribute name
RECURSIVE WellFormedFrom(_, _)
WellFormedFrom(text, i) ==
    IF i > Len(text) THEN TRUE
    ELSE IF text[i] \in {CHAR, NEWLINE} THEN WellFormedFrom(text, i + 1)
    ELSE IF text[i] \in {NONCE_ATTR, POST_ID_ATTR} /\ i \in AttrOccurrences(text, text[i])
         THEN LET j == Min({k \in (i + 2)..Len(text) : text[k] = QUOTE})
              IN  /\ \A k \in (i + 2)..(j - 1) : text[k] \in {CHAR, NEWLINE}
                  /\ WellFormedFrom(text, j + 1)
    ELSE FALSE

WellFormed(text) == WellFormedFrom(text, 1)

Delivered(resp) == resp.kind = "response"
SuccessStatus(resp) == Delivered(resp) /\ resp.status < 400
TransportFailure(resp) ==
    \/ resp.kind \in {"error", "timeout"}
    \/ Delivered(resp) /\ ~SuccessStatus(resp)

Gets(c) == {i \in DOMAIN c.requests : c.requests[i].method = "GET"}
Posts(c) == {i \in DOMAIN c.requests : c.requests[i].method = "POST"}

\* the body is a JSON object whose data field is text
TextReply(resp) ==
    /\ json_loads(resp.text).ok
    /\ json_loads(resp.text).value.type = "dict"
    /\ dict_get(json_loads(resp.text).value, "data").type = "str"

ReplyText(resp) == dict_get(json_loads(resp.text).value, "data")

(***************************************************************************)
(* C1.  When the chat POST fails at the transport stage (transport error,  *)
(* timeout or non-success status) after a successful token fetch, chat()   *)
(* fails with ConnectionError.  The code raises the generic ChatGPTError   *)
(* instead (lines 198-199), so TLC refutes this statement.                 *)
(***************************************************************************)
C1_PostTransportFailureIsConnectionError ==
    (call.pc = "done" /\ TransportFailure(call.postResp))
        => call.outcome = Raise("ConnectionError")

(***************************************************************************)
(* C2.  For a POST response with success status, chat() returns the data   *)
(* field when the body is a JSON object whose data is text, and fails with *)
(* ParseError in every other case.  The code wraps every failure of the    *)
(* interpretation, its own ParseError included, into ChatGPTError, so TLC  *)
(* refutes this statement.                                                 *)
(***************************************************************************)
C2_InterpretationReturnsDataOrParseError ==
    (call.pc = "done" /\ SuccessStatus(call.postResp))
        => call.outcome = IF TextReply(call.postResp)
                          THEN Return(ReplyText(call.postResp))
                          ELSE Raise("ParseError")

(***************************************************************************)
(* C3.  If the landing page delivered by the GET lacks the data-nonce or   *)
(* the data-post-id attribute, chat() fails with ParseError, holds no      *)
(* token pair and never issues a POST in that call.                        *)
(***************************************************************************)
C3_MissingAttributeIsParseErrorWithoutPost ==
    (SuccessStatus(call.getResp) /\ ~HasBothAttrs(call.getResp.text))
        => /\ call.pc = "done"
           /\ call.outcome = Raise("ParseError")
           /\ call.tokens = <<>>
           /\ Posts(call) = {}

C3_Witness ==
    /\ call.pc = "done"
    /\ SuccessStatus(call.getResp)
    /\ HasAttr(call.getResp.text, POST_ID_ATTR)
    /\ ~HasAttr(call.getResp.text, NONCE_ATTR)
    /\ call.outcome = Raise("ParseError")

(***************************************************************************)
(* C4.  Whatever the transport does at the GET and at the POST, a finished *)
(* chat() call has either returned a text value or failed with one of the  *)
(* four defined error kinds, and main(), which catches ChatGPTError, does  *)
(* not crash on it; an unfinished call has no outcome yet.                 *)
(***************************************************************************)
C4_OutcomeIsTextOrDefinedError ==
    /\ call.pc = "done" =>
          /\ \/ call.outcome.kind = "return" /\ call.outcome.value.type = "str"
             \/ call.outcome.kind = "raise" /\ call.outcome.error \in ErrorKinds
          /\ main(call.outcome) # "crashed"
    /\ call.pc # "done" => call.outcome = Running

C4_Witness ==
    /\ call.pc = "done"
    /\ SuccessStatus(call.postResp)
    /\ ~json_loads(call.postResp.text).ok
    /\ call.outcome.kind = "raise"

(***************************************************************************)
(* C5.  If the GET returns a success status with a page containing both    *)
(* attributes and the POST returns a success status with a JSON object     *)
(* whose data field is the text t, chat() returns exactly t.  On a page    *)
(* whose data-nonce value is empty and ends the document the code fails    *)
(* with ParseError before any POST (see C8), so TLC refutes this           *)
(* statement.                                                              *)
(***************************************************************************)
C5_EndToEndSuccess ==
    (/\ call.pc = "done"
     /\ SuccessStatus(call.getResp)
     /\ WellFormed(call.getResp.text)
     /\ HasBothAttrs(call.getResp.text)
     /\ Posts(call) # {} => (SuccessStatus(call.postResp) /\ TextReply(call.postResp)))
        => /\ Posts(call) # {}
           /\ call.outcome = Return(ReplyText(call.postResp))

(***************************************************************************)
(* C6.  Tokens are never cached across calls: every call issues its own    *)
(* landing-page GET, every POST carries as _wpnonce and post_id the nonce  *)
(* and post id extracted from the GET response of the same call (so never  *)
(* an earlier call's pair unless the page repeated it), and a token pair   *)
(* serves at most one POST.                                                *)
(***************************************************************************)
C6_TokensFreshPerCall ==
    /\ call.pc # "idle" => Cardinality(Gets(call)) = 1 /\ call.requests[1] = GetRequest
    /\ Cardinality(Posts(call)) <= 1
    /\ \A i \in Posts(call) :
          /\ SuccessStatus(call.getResp)
          /\ ParseTokens(call.getResp.text).raised = ""
          /\ call.requests[i].data._wpnonce = ParseTokens(call.getResp.text).value[1]
          /\ call.requests[i].data.post_id = ParseTokens(call.getResp.text).value[2]
          /\ call.tokens = ParseTokens(call.getResp.text).value
          /\ prevTokens # call.tokens =>
                <<call.requests[i].data._wpnonce, call.requests[i].data.post_id>> # prevTokens

C6_Witness ==
    /\ callNo = 2
    /\ Posts(call) # {}
    /\ prevTokens # <<>>
    /\ prevTokens # call.tokens
    /\ call.tokens[1] # call.tokens[2]

(***************************************************************************)
(* C7.  Within one call the network steps are sequential and never         *)
(* retried: at most one GET and one POST, the GET first, the POST only     *)
(* after the GET succeeded and both tokens were extracted, and a failed    *)
(* step ends the call; a GET that fails (transport error, timeout or error *)
(* status) ends it with ConnectionError and without a POST.                *)
(***************************************************************************)
C7_SequentialNoRetry ==
    /\ Cardinality(Gets(call)) <= 1
    /\ Cardinality(Posts(call)) <= 1
    /\ \A i \in Gets(call) : i = 1
    /\ \A i \in Posts(call) :
          /\ i = 2
          /\ SuccessStatus(call.getResp)
          /\ Len(call.tokens) = 2
    /\ TransportFailure(call.getResp) =>
          /\ call.pc = "done"
          /\ call.outcome = Raise("ConnectionError")
          /\ Posts(call) = {}
    /\ call.outcome.kind = "raise" =>
          /\ call.pc = "done"
          /\ call.postResp = NoPostResponse => Posts(call) = {}

C7_Witness ==
    /\ call.pc = "done"
    /\ Delivered(call.getResp)
    /\ call.getResp.status = 500
    /\ ParseTokens(call.getResp.text).raised = ""
    /\ call.outcome = Raise("ConnectionError")
    /\ Len(call.requests) = 1

C8_ExtractorReturnsFirstValuesVerbatim ==
    (extracted # NotRun /\ WellFormed(html) /\ HasBothAttrs(html))
        => extracted = [raised |-> "",
                        value |-> <<FirstAttrValue(html, NONCE_ATTR),
                                    FirstAttrValue(html, POST_ID_ATTR)>>]

(***************************************************************************)
(* C9.  For every message list of length n (n = 0 included) the formatter  *)
(* returns n+1 lines: the directive first, then for the i-th message the   *)
(* line "<Label>: <content>" at position i+1, with Label "Human" for the   *)
(* user role and "AI" for every other role; the result is a function of    *)
(* the input alone and the input list is left unchanged.                   *)
(***************************************************************************)
C9_FormatterLines ==
    /\ [](conversation # NoLines =>
            /\ Len(conversation) = Len(messages) + 1
            /\ conversation[1] = "Human: strictly respond in the same language as my prompt, preferably English"
            /\ \A i \in 1..Len(messages) :
                  conversation[i + 1] =
                      (IF messages[i].role = "user" THEN "Human: " ELSE "AI: ")
                          \o messages[i].content)
    /\ [][messages' = messages]_vars

C9_Witness ==
    /\ conversation # NoLines
    /\ Len(messages) = 3
    /\ messages[1].role = "user"
    /\ messages[2].role = "assistant"
    /\ messages[3].role = "system"
    /\ messages[1].content # messages[2].content

====
